---- MODULE Spec2Model ----
(***************************************************************************)
(* Model of the telemetry store of the Slingshot dashboard                 *)
(* (src/app/store/telemetryStore.ts, useTelemetryStore): the WebSocket     *)
(* session with its retry timer, and the candle ledger the message handler *)
(* maintains.                                                              *)
(*                                                                         *)
(* The store runs on the browser's event loop.  Every action below is one  *)
(* task of that loop: a call of the store's API by the UI, an event of a   *)
(* WebSocket object delivered to the handlers doConnect installed on it,   *)
(* or the callback of a timer set by ws.onclose.  The handlers of a socket *)
(* stay installed for the whole life of the socket: doConnect and          *)
(* disconnect call ws.close() and drop the reference, they never detach    *)
(* onopen/onmessage/onclose/onerror, so a replaced socket still delivers   *)
(* its close event to the same closure variables.                          *)
(*                                                                         *)
(* WebSocket objects follow the WHATWG WebSockets standard:                *)
(*   - close() on a CONNECTING socket fails the connection (error event,   *)
(*     then close event with code 1006); on an OPEN socket it starts the   *)
(*     closing handshake; either way the close event is a later task;      *)
(*   - no message event is delivered unless readyState is OPEN;            *)
(*   - the code of a close event is the status code of the peer's Close    *)
(*     frame, 1005 when the frame has none, 1006 when the connection was   *)
(*     lost (RFC 6455, 7.1.5).  The store calls close() with no argument,  *)
(*     so the code of a caller-initiated close is the peer's choice.       *)
(*                                                                         *)
(* Timers: the callbacks of setTimeout run in the order of their           *)
(* deadlines, so a pending timer that was set earlier than another with a  *)
(* delay no longer than the other's runs first.  Durations are not         *)
(* modelled otherwise: events may be arbitrarily early or late.            *)
(***************************************************************************)
EXTENDS Integers, Sequences, FiniteSets, TLC

\* ------------------------------------------------------------------ bounds
\* WebSocket objects that exist at once: the one created last and the
\* replaced ones whose close event is still to come.
MaxSockets == 2
\* Timers that are pending at once.
MaxTimers == 2
\* Candles held in the ledger.
MaxCandles == 2
\* Candle timestamps are 1..MaxTime.
MaxTime == 2
\* A ledger near its cap starts with CandleCap - NearCap .. CandleCap candles.
NearCap == 1
\* Candles evicted from a ledger at its cap.
MaxEvicted == 1
\* Log entries produced while frames of every type arrive.
MaxFrameLogs == 2
\* Log entries produced while only log-producing frames arrive.
MaxLogs == 6
\* Candles of the ledgers the RSI is computed from.
MaxRsiBars == 18
\* Candles of the ledgers the MACD is computed from.
MaxBars == 37
\* Candles and periods of the calls of the indicator functions.
MaxCallBars == 6
MaxPeriod == 3
\* Bars a new subscription delivers to the chart, and ticks of the feed
\* whose candles the chart sanitizes.
MaxChartBars == 6
MaxUnsorted == 4

\* --------------------------------------------------------------- constants
MAX_RETRIES == 5
BaseDelay == 2000
MaxDelay == 32000
NormalClosure == 1000
CandleCap == 1000

Symbols == {"BTCUSDT", "ETHUSDT"}
Timeframes == {"15m", "1h"}
\* connect(symbol) called without its optional timeframe argument
NoTimeframe == "undefined"
Times == 1..MaxTime
Prices == {10, 11}
\* The candle of a frame {type: 'candle', data}
Ticks == [time : Times, close : Prices]
\* latestPrice: null
NoPrice == 0

\* Codes of a close event.
\* The closing handshake started by close() with no code completes: the peer
\* echoes a Close frame with no status (1005) or answers with 1000.
HandshakeCodes == {1000, 1005}
\* The server closes the connection.
ServerCodes == {1000, 1001}
\* The connection failed or was lost.
AbnormalClosure == 1006

\* readyState of a WebSocket that still has events to deliver.  "ABORTING" is
\* CLOSING after close() was called on a CONNECTING socket: the connection is
\* failed, its error and close events are queued.  The other values of
\* readyState are "CLOSED" and, before any socket is created, "NONE".
LiveStates == {"CONNECTING", "OPEN", "CLOSING", "ABORTING"}

\* The two kinds of WebSocket object: the one created last, and those
\* doConnect has replaced since.
Newest == "newest"
Replaced == "replaced"
Sockets == {Newest, Replaced}

\* ws: null
Null == "null"

VARIABLES
    \* store (zustand state)
    isConnected, activeSymbol, activeTimeframe, candles, latestPrice,
    \* closure variables of the store creator: ws is Null or Newest (doConnect
    \* always assigns the socket it creates); retryTimeout is 0 (null) or the
    \* position in `timers` of the timer it refers to
    ws, retryCount, retryTimeout,
    \* browser: readyState and URL parameters of the socket created last, and
    \* the isRetry argument of the doConnect call that created it
    sock, url, isRetry,
    \* browser: replaced sockets whose close event is still to come, as the
    \* number of them per readyState (they share their handlers and no
    \* handler reads the socket it runs for)
    stale,
    \* browser: the pending timers in the order they were set, each with the
    \* arguments its callback captured and its delay
    timers,
    \* history: the task that ran last, and the delay passed to the last
    \* setTimeout since the last fresh connect (0: none)
    last, lastDelay,
    \* store (zustand state): the slices the other frames replace.  A value that
    \* may be null is JsNull or Js(v)
    mlProjection, liquidityHeatmap, neuralLogs, tacticalDecision, smcData,
    sessionData, ghostData,
    \* history: the frame the task that ran last was given (NoFrame when it was
    \* no message event)
    frame,
    \* chart (TradingChart): the data last set on the RSI series and on the
    \* three MACD series
    rsiSeries, macdSeries,
    \* indicatorsStore: the ids of the indicators whose `enabled` is true
    indicators,
    \* chart: the data last set on the candlestick series, on the three EMA
    \* series, on the three Bollinger series and on the volume series
    candleSeries, emaSeries, bbSeries, volumeSeries,
    \* chart: the `visible` option of each indicator's series, and the
    \* scaleMargins of each price scale, in hundredths of the chart's height
    visible, scaleMargins,
    \* React: the values of [candles, indicators] the sync effect last ran
    \* with (NoDeps before its first run)
    deps,
    \* history: the last call of an indicator function, with its arguments and
    \* its result
    call

storeVars == <<isConnected, activeSymbol, activeTimeframe, candles, latestPrice>>
sliceVars == <<mlProjection, liquidityHeatmap, neuralLogs, tacticalDecision,
               smcData, sessionData, ghostData>>
vars == <<isConnected, activeSymbol, activeTimeframe, candles, latestPrice,
          ws, retryCount, retryTimeout, sock, url, isRetry, stale, timers, last,
          lastDelay, mlProjection, liquidityHeatmap, neuralLogs,
          tacticalDecision, smcData, sessionData, ghostData, frame,
          rsiSeries, macdSeries, indicators, candleSeries, emaSeries,
          bbSeries, volumeSeries, visible, scaleMargins, deps, call>>
chartVars == <<rsiSeries, macdSeries, indicators, candleSeries, emaSeries,
               bbSeries, volumeSeries, visible, scaleMargins, deps, call>>

\* ------------------------------------------------------------ store values
\* No frame: the task was not a message event
NoFrame == [type |-> "none"]

\* The MACD series before any data was set on them
NoMacd == [macdLine |-> <<>>, signalLine |-> <<>>, histogram |-> <<>>]

\* INDICATOR_DEFAULTS: the ids with enabled: true
DefaultEnabled == {"ema20", "ema50", "volume", "smc", "fvg"}

\* The indicators that have series on the chart, and the EMA ones
SeriesIds == {"ema20", "ema50", "ema200", "bb", "volume", "rsi", "macd"}
EmaIds == {"ema20", "ema50", "ema200"}

NoBands == [upper |-> <<>>, middle |-> <<>>, lower |-> <<>>]
NoDeps == <<>>
NoCall == [fn |-> "none"]

\* scaleMargins: {top, bottom}, in hundredths
Margins(top, bottom) == [top |-> top, bottom |-> bottom]

\* Chart init effect: every series is created empty and visible; the volume,
\* rsi and macd price scales get their margins, the right one keeps the
\* library's default (top 0.2, bottom 0.1)
ChartCreated ==
    /\ rsiSeries = <<>>
    /\ macdSeries = NoMacd
    /\ candleSeries = <<>>
    /\ emaSeries = [id \in EmaIds |-> <<>>]
    /\ bbSeries = NoBands
    /\ volumeSeries = <<>>
    /\ visible = [id \in SeriesIds |-> TRUE]
    /\ scaleMargins = [right |-> Margins(20, 10), volume |-> Margins(80, 0),
                       rsi |-> Margins(70, 10), macd |-> Margins(60, 0)]
    /\ deps = NoDeps
    /\ call = NoCall

\* A JavaScript value that may be null: null, or the value v
JsNull == <<>>
Js(v) == <<v>>

\* The fields of TacticalDecision that are number | null
NumericFields == {"nearest_support", "nearest_resistance", "sma_fast",
                  "sma_slow", "sma_slow_slope", "bb_width", "bb_width_mean",
                  "dist_to_sma200"}

\* The initial state's neuralLogs: [{id: 'init', type: 'SYSTEM', ...}]
InitialLogs ==
    <<[id |-> 0, type |-> "SYSTEM", message |-> <<"Modelo XGBoost cargado">>]>>

\* key_levels: { resistances: [], supports: [] }
NoKeyLevels == [resistances |-> <<>>, supports |-> <<>>]

\* A TacticalDecision with the given texts and no reported value.  A reasoning
\* is the sequence of the parts of its text.
BlankDecision(regime, strategy, reasoning) ==
    [regime |-> regime, strategy |-> strategy, reasoning |-> reasoning,
     nearest_support |-> JsNull, nearest_resistance |-> JsNull,
     sma_fast |-> JsNull, sma_slow |-> JsNull, sma_slow_slope |-> JsNull,
     bb_width |-> JsNull, bb_width_mean |-> JsNull, dist_to_sma200 |-> JsNull,
     signals |-> <<>>, key_levels |-> NoKeyLevels]

\* The initial state's mlProjection and tacticalDecision
InitialProjection == [direction |-> "ALCISTA", probability |-> 64]
InitialDecision ==
    BlankDecision("DESCUBRIENDO...", "STANDBY",
                  <<"Inicializando motores de inferencia.">>)

\* The mlProjection and tacticalDecision a fresh connect sets
StandbyProjection == [direction |-> "NEUTRAL", probability |-> 50]
StandbyDecision(symbol) ==
    BlankDecision("ANALIZANDO NUEVO RIESGO...", "STANDBY",
                  <<"Sincronizando telemetria para", symbol>>)

\* ----------------------------------------------------------------- helpers
RECURSIVE Pow2(_)
Pow2(k) == IF k = 0 THEN 1 ELSE 2 * Pow2(k - 1)

\* Number of replaced sockets still alive
StaleCount(st) ==
    st["CONNECTING"] + st["OPEN"] + st["CLOSING"] + st["ABORTING"]

NoUrl == [symbol |-> "-", timeframe |-> "-"]

\* The queue q without the timer at position h (h = 0: q)
Without(q, h) ==
    [j \in 1..(Len(q) - (IF h \in 1..Len(q) THEN 1 ELSE 0)) |->
        IF h # 0 /\ j >= h THEN q[j + 1] ELSE q[j]]

\* clearTimeout(h)
ClearTimeout(q, h) == Without(q, h)

\* WebSocket.close(): CONNECTING -> the connection is failed; OPEN -> closing
\* handshake; no effect on a socket that is closing or closed.
CloseSocket(state) ==
    IF state = "CONNECTING" THEN "ABORTING"
    ELSE IF state = "OPEN" THEN "CLOSING"
    ELSE state

\* A teardown that drops the reference without closing the socket
TearDownKeepsOpen(state, w) == state

\* if (ws) { ws.close(); ws = null; }: the readyState of the socket created
\* last afterwards
TearDown(state, w) ==
    IF w # Null THEN CloseSocket(state) ELSE state

\* A backoff that grows linearly
DelayMsLinear(k) == (k + 1) * BaseDelay

\* ws.onclose: const delayMs = Math.pow(2, retryCount) * 2000
DelayMs(k) == Pow2(k) * BaseDelay

\* ws.onclose: event.code !== 1000 && retryCount < MAX_RETRIES
ShouldRetry(code, count) == code # NormalClosure /\ count < MAX_RETRIES

\* An updater that never evicts
UpsertCandleUncapped(cs, c) ==
    LET lastIdx == Len(cs) IN
    IF lastIdx >= 1 /\ cs[lastIdx].time = c.time
    THEN [cs EXCEPT ![lastIdx] = c]
    ELSE Append(cs, c)

\* An updater that pushes every tick
UpsertCandleAppends(cs, c) ==
    LET pushed == Append(cs, c) IN
    IF Len(pushed) > CandleCap THEN Tail(pushed) ELSE pushed

\* ws.onmessage, candle branch: the updater passed to set()
UpsertCandle(cs, c) ==
    LET lastIdx == Len(cs) IN
    IF lastIdx >= 1 /\ cs[lastIdx].time = c.time
    THEN [cs EXCEPT ![lastIdx] = c]
    ELSE LET pushed == Append(cs, c) IN
         IF Len(pushed) > CandleCap THEN Tail(pushed) ELSE pushed

\* A socket of kind `who` is in readyState `from`
InState(who, from) ==
    IF who = Newest THEN sock = from ELSE from \in LiveStates /\ stale[from] > 0

\* A socket of kind `who` goes from readyState `from` to `to`
Becomes(who, from, to) ==
    IF who = Newest
    THEN /\ sock' = to
         /\ stale' = stale
    ELSE /\ sock' = sock
         /\ stale' = [st \in LiveStates |->
                        stale[st] - (IF st = from THEN 1 ELSE 0)
                                  + (IF st = to THEN 1 ELSE 0)]

\* -------------------------------------------------------------------- Init
Init ==
    /\ isConnected = FALSE
    /\ activeSymbol = "BTCUSDT"
    /\ activeTimeframe = "15m"
    /\ candles = <<>>
    /\ latestPrice = NoPrice
    /\ ws = Null
    /\ retryCount = 0
    /\ retryTimeout = 0
    /\ sock = "NONE"
    /\ url = NoUrl
    /\ isRetry = FALSE
    /\ stale = [st \in LiveStates |-> 0]
    /\ timers = <<>>
    /\ last = [op |-> "init", cur |-> FALSE, sched |-> FALSE]
    /\ lastDelay = 0
    /\ mlProjection = InitialProjection
    /\ liquidityHeatmap = JsNull
    /\ neuralLogs = InitialLogs
    /\ tacticalDecision = InitialDecision
    /\ smcData = JsNull
    /\ sessionData = JsNull
    /\ ghostData = JsNull
    /\ frame = NoFrame
    /\ indicators = DefaultEnabled
    /\ ChartCreated

\* ---------------------------------------------------------------- doConnect
\* A doConnect that resets the store on a retry too
DoConnectResets(symbol, timeframe, retry, pending, handle) ==
    LET old == TearDown(sock, ws) IN
    \* the replaced socket stays alive until its close event
    /\ stale' = IF old \in LiveStates THEN [stale EXCEPT ![old] = @ + 1]
                ELSE stale
    \* if (retryTimeout) { clearTimeout(retryTimeout); retryTimeout = null; }
    /\ timers' = ClearTimeout(pending, handle)
    /\ retryTimeout' = 0
    /\ IF TRUE
       THEN /\ retryCount' = 0
            /\ lastDelay' = 0
            /\ activeSymbol' = symbol
            /\ activeTimeframe' = timeframe
            /\ candles' = <<>>
            /\ isConnected' = FALSE
            /\ latestPrice' = NoPrice
            /\ smcData' = JsNull
            /\ sessionData' = JsNull
            /\ liquidityHeatmap' = JsNull
            /\ mlProjection' = StandbyProjection
            /\ tacticalDecision' = StandbyDecision(symbol)
       ELSE UNCHANGED <<retryCount, lastDelay, activeSymbol, activeTimeframe,
                        candles, isConnected, latestPrice, smcData,
                        sessionData, liquidityHeatmap, mlProjection,
                        tacticalDecision>>
    /\ UNCHANGED <<ghostData, neuralLogs, chartVars>>
    \* ws = new WebSocket(`${BASE_WS}/api/v1/stream/${symbol}?interval=${timeframe}`)
    /\ sock' = "CONNECTING"
    /\ url' = [symbol |-> symbol, timeframe |-> timeframe]
    /\ isRetry' = retry
    /\ ws' = Newest

\* doConnect(symbol, timeframe, isRetry), called with the pending timers
\* `pending` and with retryTimeout referring to position `handle` of them
\* (when a timer callback calls it, that timer is no longer pending).
DoConnect(symbol, timeframe, retry, pending, handle) ==
    LET old == TearDown(sock, ws) IN
    \* the replaced socket stays alive until its close event
    /\ stale' = IF old \in LiveStates THEN [stale EXCEPT ![old] = @ + 1]
                ELSE stale
    \* if (retryTimeout) { clearTimeout(retryTimeout); retryTimeout = null; }
    /\ timers' = ClearTimeout(pending, handle)
    /\ retryTimeout' = 0
    /\ IF ~retry
       THEN /\ retryCount' = 0
            /\ lastDelay' = 0
            /\ activeSymbol' = symbol
            /\ activeTimeframe' = timeframe
            /\ candles' = <<>>
            /\ isConnected' = FALSE
            /\ latestPrice' = NoPrice
            /\ smcData' = JsNull
            /\ sessionData' = JsNull
            /\ liquidityHeatmap' = JsNull
            /\ mlProjection' = StandbyProjection
            /\ tacticalDecision' = StandbyDecision(symbol)
       ELSE UNCHANGED <<retryCount, lastDelay, activeSymbol, activeTimeframe,
                        candles, isConnected, latestPrice, smcData,
                        sessionData, liquidityHeatmap, mlProjection,
                        tacticalDecision>>
    /\ UNCHANGED <<ghostData, neuralLogs, chartVars>>
    \* ws = new WebSocket(`${BASE_WS}/api/v1/stream/${symbol}?interval=${timeframe}`)
    /\ sock' = "CONNECTING"
    /\ url' = [symbol |-> symbol, timeframe |-> timeframe]
    /\ isRetry' = retry
    /\ ws' = Newest

\* ------------------------------------------------------------- API actions
\* connect(symbol, timeframe?)
Connect(symbol, timeframe) ==
    /\ DoConnect(symbol,
                 IF timeframe = NoTimeframe THEN activeTimeframe ELSE timeframe,
                 FALSE, timers, retryTimeout)
    /\ last' = [op |-> "connect", cur |-> FALSE, sched |-> FALSE]
    /\ frame' = NoFrame

\* setTimeframe(tf)
SetTimeframe(tf) ==
    /\ DoConnect(activeSymbol, tf, FALSE, timers, retryTimeout)
    /\ last' = [op |-> "setTimeframe", cur |-> FALSE, sched |-> FALSE]
    /\ frame' = NoFrame

\* disconnect()
Disconnect ==
    /\ sock' = TearDown(sock, ws)
    /\ ws' = Null
    /\ last' = [op |-> "disconnect", cur |-> FALSE, sched |-> FALSE]
    /\ frame' = NoFrame
    /\ UNCHANGED <<storeVars, retryCount, retryTimeout, url, isRetry, stale,
                   timers, lastDelay, sliceVars, chartVars>>

\* ------------------------------------------------------- socket handlers
\* ws.onopen
OnOpen(who) ==
    /\ InState(who, "CONNECTING")
    /\ Becomes(who, "CONNECTING", "OPEN")
    /\ isConnected' = TRUE
    /\ last' = [op |-> "open", cur |-> who = Newest, sched |-> FALSE]
    /\ frame' = NoFrame
    /\ UNCHANGED <<activeSymbol, activeTimeframe, candles, latestPrice, ws,
                   retryCount, retryTimeout, url, isRetry, timers, lastDelay,
                   sliceVars, chartVars>>

\* ws.onmessage with a frame {type: 'candle', data: {...}}; a message event is
\* delivered only while readyState is OPEN
OnCandle(who, c) ==
    /\ InState(who, "OPEN")
    /\ candles' = UpsertCandle(candles, c)
    /\ latestPrice' = c.close
    /\ last' = [op |-> "message", cur |-> who = Newest, sched |-> FALSE]
    /\ frame' = [type |-> "candle", data |-> c]
    /\ UNCHANGED <<isConnected, activeSymbol, activeTimeframe, ws, retryCount,
                   retryTimeout, sock, url, isRetry, stale, timers, lastDelay,
                   sliceVars, chartVars>>

\* ------------------------------------------------- ws.onmessage, other frames
\* A parsed frame is a record [type, data]; a payload is a record that has a
\* field or lacks it.  Reading a property of a field the payload lacks throws
\* a TypeError, which the catch of ws.onmessage logs: the set() calls made
\* before it keep their effect, an updater that throws has none.
Has(obj, f) == f \in DOMAIN obj

\* d.f || null
NumberOrNullFalsy(d, f) ==
    IF Has(d, f) /\ d[f] # JsNull /\ d[f] # Js(0) THEN d[f] ELSE JsNull

\* d.f ?? null
NumberOrNull(d, f) ==
    IF Has(d, f) /\ d[f] # JsNull THEN d[f] ELSE JsNull

\* d.f ?? fallback, for a field that is never null
OrElse(d, f, fallback) == IF Has(d, f) THEN d[f] ELSE fallback

\* d.f as a condition: an absent flag is falsy
Truthy(d, f) == Has(d, f) /\ d[f]

\* array.slice(0, k)
Slice(q, k) == SubSeq(q, 1, IF Len(q) < k THEN Len(q) ELSE k)

\* neuralLogs is cut to 5 entries, to 3 by the smc_data branch
LogCap == 5
SmcLogCap == 3

\* newLog.  Math.random() gives every entry an id of its own: here the number
\* of entries produced before it (the initial entry has id 0), the newest
\* stored entry being the one produced last.  A message is the sequence of the
\* parts of its text.
NewLog(logs, type, message) ==
    [id |-> logs[1].id + 1, type |-> type, message |-> message]

\* [newLog, ...state.neuralLogs].slice(0, cap)
Prepend(logs, entry, cap) == Slice(<<entry>> \o logs, cap)

\* `Dist SMA200: ${d.dist_to_sma200 != null ? (d.dist_to_sma200 * 100)
\* .toFixed(2) + '%' : 'N/A'}`: the percentage, JsNull for 'N/A'
DistText(d) ==
    IF Has(d, "dist_to_sma200") /\ d.dist_to_sma200 # JsNull
    THEN Js(d.dist_to_sma200[1] * 100)
    ELSE JsNull

\* tactical_update: the object passed to set()
TacticalDecisionOf(d) ==
    [regime |-> OrElse(d, "market_regime", "UNKNOWN"),
     strategy |-> OrElse(d, "active_strategy", "STANDBY"),
     reasoning |-> <<"Regimen", OrElse(d, "market_regime", "undefined"),
                     DistText(d)>>,
     nearest_support |-> NumberOrNull(d, "nearest_support"),
     nearest_resistance |-> NumberOrNull(d, "nearest_resistance"),
     sma_fast |-> NumberOrNull(d, "sma_fast"),
     sma_slow |-> NumberOrNull(d, "sma_slow"),
     sma_slow_slope |-> NumberOrNull(d, "sma_slow_slope"),
     bb_width |-> NumberOrNull(d, "bb_width"),
     bb_width_mean |-> NumberOrNull(d, "bb_width_mean"),
     dist_to_sma200 |-> NumberOrNull(d, "dist_to_sma200"),
     signals |-> OrElse(d, "signals", <<>>),
     key_levels |-> OrElse(d, "key_levels", NoKeyLevels)]

\* biasIcons[data.data.macro_bias] ?? white
BiasIcon(d) ==
    LET bias == OrElse(d, "macro_bias", "undefined") IN
    CASE bias = "BULLISH" -> "green"
      [] bias = "BEARISH" -> "red"
      [] bias = "NEUTRAL" -> "white"
      [] bias = "BLOCK_LONGS" -> "orange"
      [] bias = "BLOCK_SHORTS" -> "brown"
      [] bias = "CONFLICTED" -> "yellow"
      [] OTHER -> "white"

\* ghost_update: newLog.type
GhostLogType(d) ==
    IF Truthy(d, "block_longs") \/ Truthy(d, "block_shorts")
    THEN "ALERT" ELSE "SENSOR"

\* drift_alert: levelIcon
LevelIcon(d) ==
    IF OrElse(d, "drift_level", "undefined") = "SEVERE"
    THEN "siren" ELSE "warning"

\* The types the if/else chain of ws.onmessage has a branch for
RecognisedTypes == {"candle", "neural_pulse", "tactical_update",
                    "session_update", "smc_data", "ghost_update",
                    "drift_alert"}

\* A message event with frame f is delivered to the handler of a socket of
\* kind `who`; nothing but the store changes
Delivered(who, f) ==
    /\ InState(who, "OPEN")
    /\ last' = [op |-> "message", cur |-> who = Newest, sched |-> FALSE]
    /\ frame' = f
    /\ UNCHANGED <<isConnected, activeSymbol, activeTimeframe, ws, retryCount,
                   retryTimeout, sock, url, isRetry, stale, timers, lastDelay,
                   chartVars>>

\* data.type === 'neural_pulse'
OnNeuralPulse(who, f) ==
    /\ f.type = "neural_pulse"
    /\ Delivered(who, f)
    /\ IF Has(f.data, "log")
       THEN /\ mlProjection' = f.data.ml_projection
            /\ liquidityHeatmap' = f.data.liquidity_heatmap
            /\ neuralLogs' =
                  Prepend(neuralLogs,
                          NewLog(neuralLogs, f.data.log.type,
                                 <<f.data.log.message>>),
                          LogCap)
       ELSE \* data.data.log.type throws inside the updater
            UNCHANGED <<mlProjection, liquidityHeatmap, neuralLogs>>
    /\ UNCHANGED <<candles, latestPrice, tacticalDecision, smcData,
                   sessionData, ghostData>>

\* data.type === 'tactical_update'
OnTacticalUpdate(who, f) ==
    /\ f.type = "tactical_update"
    /\ Delivered(who, f)
    /\ IF Has(f, "data")
       THEN tacticalDecision' = TacticalDecisionOf(f.data)
       ELSE \* d.market_regime throws
            UNCHANGED tacticalDecision
    /\ UNCHANGED <<candles, latestPrice, mlProjection, liquidityHeatmap,
                   neuralLogs, smcData, sessionData, ghostData>>

\* A session_update branch that also drops the SMC structure
OnSessionUpdateResets(who, f) ==
    /\ f.type = "session_update"
    /\ Delivered(who, f)
    /\ sessionData' = Js(f.data)
    /\ smcData' = JsNull
    /\ UNCHANGED <<candles, latestPrice, mlProjection, liquidityHeatmap,
                   neuralLogs, tacticalDecision, ghostData>>

\* data.type === 'session_update'
OnSessionUpdate(who, f) ==
    /\ f.type = "session_update"
    /\ Delivered(who, f)
    /\ sessionData' = Js(f.data)
    /\ UNCHANGED <<candles, latestPrice, mlProjection, liquidityHeatmap,
                   neuralLogs, tacticalDecision, smcData, ghostData>>

\* data.type === 'smc_data'
OnSmcData(who, f) ==
    /\ f.type = "smc_data"
    /\ Delivered(who, f)
    /\ smcData' = Js(f.data)
    /\ IF Has(f.data, "order_blocks") /\ Has(f.data, "fvgs")
       THEN neuralLogs' =
              Prepend(neuralLogs, NewLog(neuralLogs, "SENSOR", <<"[SMC]">>),
                      SmcLogCap)
       ELSE \* data.data.order_blocks.bullish throws inside the updater
            UNCHANGED neuralLogs
    /\ UNCHANGED <<candles, latestPrice, mlProjection, liquidityHeatmap,
                   tacticalDecision, sessionData, ghostData>>

\* data.type === 'ghost_update'
OnGhostUpdate(who, f) ==
    /\ f.type = "ghost_update"
    /\ Delivered(who, f)
    /\ ghostData' = Js(f.data)
    /\ IF Has(f.data, "funding_rate")
       THEN neuralLogs' =
              Prepend(neuralLogs,
                      NewLog(neuralLogs, GhostLogType(f.data),
                             <<"[GHOST]", BiasIcon(f.data)>>),
                      LogCap)
       ELSE \* data.data.funding_rate.toFixed throws inside the updater
            UNCHANGED neuralLogs
    /\ UNCHANGED <<candles, latestPrice, mlProjection, liquidityHeatmap,
                   tacticalDecision, smcData, sessionData>>

\* data.type === 'drift_alert'
OnDriftAlert(who, f) ==
    /\ f.type = "drift_alert"
    /\ Delivered(who, f)
    /\ IF Has(f.data, "psi_max")
       THEN neuralLogs' =
              Prepend(neuralLogs,
                      NewLog(neuralLogs, "ALERT",
                             <<"[DRIFT]", LevelIcon(f.data)>>),
                      LogCap)
       ELSE \* data.data.psi_max.toFixed throws inside the updater
            UNCHANGED neuralLogs
    /\ UNCHANGED <<candles, latestPrice, mlProjection, liquidityHeatmap,
                   tacticalDecision, smcData, sessionData, ghostData>>

\* A frame JSON.parse rejects (the catch logs it), or one whose type has no
\* branch
OnIgnored(who, f) ==
    /\ f.type \notin RecognisedTypes
    /\ Delivered(who, f)
    /\ UNCHANGED <<candles, latestPrice, sliceVars>>

\* ws.onclose(event) with event.code = code, for a socket of kind `who` in
\* readyState `from`.  When the connection was failed (code 1006) ws.onerror
\* ran first in the same task; it only sets isConnected to false.
OnClose(who, from, code) ==
    /\ InState(who, from)
    /\ Becomes(who, from, "CLOSED")
    /\ isConnected' = FALSE
    /\ IF ShouldRetry(code, retryCount)
       THEN \* retryTimeout = setTimeout(() => doConnect(activeSymbol,
            \* activeTimeframe, true), delayMs); a timer retryTimeout referred
            \* to stays pending
            /\ timers' = Append(timers, [symbol |-> activeSymbol,
                                         timeframe |-> activeTimeframe,
                                         delayMs |-> DelayMs(retryCount)])
            /\ retryTimeout' = Len(timers) + 1
            /\ retryCount' = retryCount + 1
            /\ lastDelay' = DelayMs(retryCount)
       ELSE UNCHANGED <<timers, retryTimeout, retryCount, lastDelay>>
    /\ last' = [op |-> "close", cur |-> who = Newest,
                sched |-> ShouldRetry(code, retryCount)]
    /\ frame' = NoFrame
    /\ UNCHANGED <<activeSymbol, activeTimeframe, candles, latestPrice, ws, url,
                   isRetry, sliceVars, chartVars>>

\* The closing handshake started by close() completes.
CloseCompletes(who) ==
    \E code \in HandshakeCodes : OnClose(who, "CLOSING", code)

\* The server closes an open connection.
ServerCloses(who) ==
    \E code \in ServerCodes : OnClose(who, "OPEN", code)

\* The connection is refused or lost.  ws.onerror, then ws.onclose with code
\* 1006.
ConnectionFails(who) ==
    \E from \in {"CONNECTING", "OPEN", "CLOSING"} :
        OnClose(who, from, AbnormalClosure)

\* The events of a socket closed while it was connecting are delivered:
\* ws.onerror, then ws.onclose with code 1006.
AbortCompletes(who) ==
    OnClose(who, "ABORTING", AbnormalClosure)

\* The timer at position i is due before every other pending timer can be:
\* each timer set before it has a longer delay.
MayFire(q, i) ==
    /\ i \in 1..Len(q)
    /\ \A j \in 1..(i - 1) : q[j].delayMs > q[i].delayMs

\* The callback of the timer at position i:
\* doConnect(activeSymbol, activeTimeframe, true) with the captured values.
\* retryTimeout still holds its handle: of this timer, or of another one,
\* which the clearTimeout in doConnect then cancels.
TimerFires(i) ==
    /\ MayFire(timers, i)
    /\ DoConnect(timers[i].symbol, timers[i].timeframe, TRUE,
                 Without(timers, i),
                 IF retryTimeout = i THEN 0
                 ELSE IF retryTimeout > i THEN retryTimeout - 1
                 ELSE retryTimeout)
    /\ last' = [op |-> "timer", cur |-> FALSE, sched |-> FALSE]
    /\ frame' = NoFrame

\* -------------------------------------------------------------------- Next
\* The state is within the bounds: at most `ms` sockets, `mt` pending timers
\* and `mc` candles
Within(ms, mt, mc) ==
    /\ StaleCount(stale) + 1 <= ms
    /\ Len(timers) <= mt
    /\ Len(candles) <= mc

\* One task of the event loop: a call of the store's API, an event of a
\* socket (candles drawn from `ticks`), or a timer callback; the state stays
\* within the bounds
Task(ticks, ms, mt, mc) ==
    \/ \E symbol \in Symbols, tf \in Timeframes \cup {NoTimeframe} :
          Connect(symbol, tf) /\ Within(ms, mt, mc)'
    \/ \E tf \in Timeframes : SetTimeframe(tf) /\ Within(ms, mt, mc)'
    \/ Disconnect /\ Within(ms, mt, mc)'
    \/ \E who \in Sockets : OnOpen(who) /\ Within(ms, mt, mc)'
    \/ \E who \in Sockets, c \in ticks :
          OnCandle(who, c) /\ Within(ms, mt, mc)'
    \/ \E who \in Sockets : CloseCompletes(who) /\ Within(ms, mt, mc)'
    \/ \E who \in Sockets : ServerCloses(who) /\ Within(ms, mt, mc)'
    \/ \E who \in Sockets : ConnectionFails(who) /\ Within(ms, mt, mc)'
    \/ \E who \in Sockets : AbortCompletes(who) /\ Within(ms, mt, mc)'
    \/ \E i \in 1..Len(timers) : TimerFires(i) /\ Within(ms, mt, mc)'

\* The store with a feed of candles of any time
Next == Task(Ticks, MaxSockets, MaxTimers, MaxCandles)

Spec == Init /\ [][Next]_vars

\* The store with a feed that only ticks the bar in progress
FeedTicks == [time : {1}, close : Prices]

SessionNext == Task(FeedTicks, MaxSockets, MaxTimers, MaxCandles)

SessionSpec == Init /\ [][SessionNext]_vars

\* The event loop runs the callbacks of the pending timers, and delivers the
\* close event of every socket close() was called on.  Nothing makes a
\* connection open, fail or receive, and nothing makes the caller act.
Fairness ==
    /\ WF_vars(SessionNext /\ \E i \in 1..Len(timers) : TimerFires(i))
    /\ \A who \in Sockets :
          WF_vars(SessionNext /\ (CloseCompletes(who) \/ AbortCompletes(who)))

LiveSpec == SessionSpec /\ Fairness

\* The same store with room for one more socket and one more timer
WideNext == Task(FeedTicks, MaxSockets + 1, MaxTimers + 1, MaxCandles)

WideSpec == Init /\ [][WideNext]_vars

\* ------------------------------------------------------------------ ledger
\* newCandle of a frame {type: 'candle', data} with all its fields; a bar whose
\* prices are all p
Candle(t, p) ==
    [time |-> t, open |-> p, high |-> p, low |-> p, close |-> p, volume |-> 1]

\* Frames whose numbers break the shape of a bar: high below low, negative
\* volume
InvertedCandle(t, p) == [Candle(t, p) EXCEPT !.high = p - 1]
NegativeVolumeCandle(t, p) == [Candle(t, p) EXCEPT !.volume = 0 - 1]

\* The ledger after n bars 1..n were received
Ledger(n) == [i \in 1..n |-> Candle(i, 10)]

\* Times of the ticks given to a ledger near its cap: behind, at and ahead of
\* the last bar
LedgerTimes == (CandleCap - 1)..(CandleCap + 1)

LedgerTicks ==
    {Candle(t, p) : t \in LedgerTimes, p \in Prices}
        \cup {InvertedCandle(t, 10) : t \in LedgerTimes}
        \cup {NegativeVolumeCandle(t, 10) : t \in LedgerTimes}

\* The store after connect('BTCUSDT') and the open event of its socket
Opened ==
    /\ isConnected = TRUE
    /\ activeSymbol = "BTCUSDT"
    /\ activeTimeframe = "15m"
    /\ ws = Newest
    /\ retryCount = 0
    /\ retryTimeout = 0
    /\ sock = "OPEN"
    /\ url = [symbol |-> "BTCUSDT", timeframe |-> "15m"]
    /\ isRetry = FALSE
    /\ stale = [st \in LiveStates |-> 0]
    /\ timers = <<>>
    /\ last = [op |-> "open", cur |-> TRUE, sched |-> FALSE]
    /\ lastDelay = 0
    /\ mlProjection = StandbyProjection
    /\ liquidityHeatmap = JsNull
    /\ neuralLogs = InitialLogs
    /\ tacticalDecision = StandbyDecision("BTCUSDT")
    /\ smcData = JsNull
    /\ sessionData = JsNull
    /\ ghostData = JsNull
    /\ frame = NoFrame
    /\ indicators = DefaultEnabled
    /\ ChartCreated

\* An open session whose ledger is empty, or holds the bars received so far,
\* up to the cap
LedgerInit ==
    /\ Opened
    /\ \E n \in {0} \cup ((CandleCap - NearCap)..CandleCap) :
          /\ candles = Ledger(n)
          /\ latestPrice = IF n = 0 THEN NoPrice ELSE 10

\* The ledger is short or near its cap, and at most MaxEvicted of the bars of
\* Ledger(n) were evicted
LedgerWithin ==
    /\ Len(candles) <= MaxCandles \/ Len(candles) >= CandleCap - NearCap
    /\ Len(candles) >= CandleCap - NearCap => candles[1].time <= 1 + MaxEvicted

LedgerNext ==
    \E c \in LedgerTicks : OnCandle(Newest, c) /\ LedgerWithin'

LedgerSpec == LedgerInit /\ [][LedgerNext]_vars

\* ------------------------------------------------------------------ frames
\* Payloads, with the fields the handlers read
Projection == [direction |-> "BAJISTA", probability |-> 70]
Heatmap == Js([bids |-> <<>>, asks |-> <<>>])
PulseLog == [type |-> "SENSOR", message |-> "pulse"]

PulseFrames ==
    {[type |-> "neural_pulse",
      data |-> [log |-> PulseLog, ml_projection |-> Projection,
                liquidity_heatmap |-> Heatmap]],
     \* no log
     [type |-> "neural_pulse",
      data |-> [ml_projection |-> Projection, liquidity_heatmap |-> Heatmap]]}

TacticalReport ==
    [market_regime |-> "TREND", active_strategy |-> "LONG",
     nearest_support |-> Js(5), nearest_resistance |-> Js(5),
     sma_fast |-> Js(5), sma_slow |-> Js(5), sma_slow_slope |-> Js(0),
     bb_width |-> Js(5), bb_width_mean |-> Js(5), dist_to_sma200 |-> Js(0),
     signals |-> <<"signal">>,
     key_levels |-> [resistances |-> <<"level">>, supports |-> <<>>]]

TacticalFrames ==
    {[type |-> "tactical_update", data |-> TacticalReport],
     \* data: {}
     [type |-> "tactical_update", data |-> <<>>],
     \* no data
     [type |-> "tactical_update"]}

SessionFrames ==
    {[type |-> "session_update",
      data |-> [current_session |-> "LONDON", is_killzone |-> TRUE]]}

Zones == [bullish |-> <<"zone">>, bearish |-> <<>>]

SmcFrames ==
    {[type |-> "smc_data", data |-> [order_blocks |-> Zones, fvgs |-> Zones]],
     \* no order_blocks
     [type |-> "smc_data", data |-> [fvgs |-> Zones]]}

GhostReport(bias, longs, shorts) ==
    [macro_bias |-> bias, fear_greed_value |-> 20, btc_dominance |-> 55,
     funding_rate |-> 1, block_longs |-> longs, block_shorts |-> shorts]

GhostFrames ==
    {[type |-> "ghost_update", data |-> GhostReport("NEUTRAL", FALSE, FALSE)],
     [type |-> "ghost_update", data |-> GhostReport("BLOCK_LONGS", TRUE, FALSE)],
     [type |-> "ghost_update", data |-> GhostReport("BLOCK_SHORTS", FALSE, TRUE)],
     \* no funding_rate
     [type |-> "ghost_update",
      data |-> [macro_bias |-> "BEARISH", fear_greed_value |-> 20,
                btc_dominance |-> 55, block_longs |-> FALSE,
                block_shorts |-> FALSE]]}

DriftReport(level) ==
    [drift_level |-> level, psi_max |-> 1, rolling_accuracy |-> 1,
     recommendation |-> "retrain"]

DriftFrames ==
    {[type |-> "drift_alert", data |-> DriftReport("SEVERE")],
     [type |-> "drift_alert", data |-> DriftReport("MODERATE")],
     \* no psi_max
     [type |-> "drift_alert",
      data |-> [drift_level |-> "SEVERE", rolling_accuracy |-> 1,
                recommendation |-> "retrain"]]}

\* A frame of a type with no branch, and a frame that is no JSON text
OtherFrames == {[type |-> "heartbeat"], [type |-> "(unparseable)"]}

\* An open session that has received one bar
FrameInit ==
    /\ Opened
    /\ candles = Ledger(1)
    /\ latestPrice = 10

\* At most `ml` log entries were produced
LogsWithin(ml) == neuralLogs[1].id <= ml

\* The session receives frames of every type but candle
FrameNext ==
    \/ \E f \in PulseFrames :
          OnNeuralPulse(Newest, f) /\ LogsWithin(MaxFrameLogs)'
    \/ \E f \in TacticalFrames :
          OnTacticalUpdate(Newest, f) /\ LogsWithin(MaxFrameLogs)'
    \/ \E f \in SessionFrames :
          OnSessionUpdate(Newest, f) /\ LogsWithin(MaxFrameLogs)'
    \/ \E f \in SmcFrames :
          OnSmcData(Newest, f) /\ LogsWithin(MaxFrameLogs)'
    \/ \E f \in GhostFrames :
          OnGhostUpdate(Newest, f) /\ LogsWithin(MaxFrameLogs)'
    \/ \E f \in DriftFrames :
          OnDriftAlert(Newest, f) /\ LogsWithin(MaxFrameLogs)'
    \/ \E f \in OtherFrames :
          OnIgnored(Newest, f) /\ LogsWithin(MaxFrameLogs)'

FrameSpec == FrameInit /\ [][FrameNext]_vars

\* The session receives well-formed frames of the types that produce a log
\* entry
LogNext ==
    \/ \E f \in PulseFrames :
          Has(f.data, "log") /\ OnNeuralPulse(Newest, f) /\ LogsWithin(MaxLogs)'
    \/ \E f \in SmcFrames :
          Has(f.data, "order_blocks") /\ OnSmcData(Newest, f)
              /\ LogsWithin(MaxLogs)'
    \/ \E f \in GhostFrames :
          Has(f.data, "funding_rate") /\ OnGhostUpdate(Newest, f)
              /\ LogsWithin(MaxLogs)'
    \/ \E f \in DriftFrames :
          Has(f.data, "psi_max") /\ OnDriftAlert(Newest, f)
              /\ LogsWithin(MaxLogs)'

LogSpec == FrameInit /\ [][LogNext]_vars

\* The record with the fields of a and, where a has none, of b
Merge(a, b) ==
    [x \in DOMAIN a \cup DOMAIN b |-> IF x \in DOMAIN a THEN a[x] ELSE b[x]]

\* What a payload can say of a number | null field it has
NumberValues == {JsNull, Js(0), Js(5)}

\* The numeric fields of a tactical payload: all of them or all but one, one
\* of them with a value of its own
NumericReports ==
    {[f \in (IF whole THEN NumericFields ELSE NumericFields \ {g}) |->
        IF f = g THEN v ELSE w] :
     g \in NumericFields, whole \in BOOLEAN, v \in NumberValues,
     w \in NumberValues}

TacticalHead ==
    [market_regime |-> "TREND", active_strategy |-> "LONG",
     signals |-> <<"signal">>,
     key_levels |-> [resistances |-> <<"level">>, supports |-> <<>>]]

TacticalUpdates ==
    {[type |-> "tactical_update", data |-> Merge(head, num)] :
     head \in {TacticalHead, <<>>}, num \in NumericReports}

\* The session receives tactical updates
TacticalNext ==
    \E f \in TacticalUpdates : OnTacticalUpdate(Newest, f)

TacticalSpec == FrameInit /\ [][TacticalNext]_vars

\* The frames of a feed whose payloads are complete
FullFrames ==
    {[type |-> "neural_pulse",
      data |-> [log |-> PulseLog, ml_projection |-> Projection,
                liquidity_heatmap |-> Heatmap]],
     [type |-> "tactical_update", data |-> TacticalReport],
     [type |-> "session_update",
      data |-> [current_session |-> "LONDON", is_killzone |-> TRUE]],
     [type |-> "smc_data", data |-> [order_blocks |-> Zones, fvgs |-> Zones]],
     [type |-> "ghost_update", data |-> GhostReport("NEUTRAL", FALSE, FALSE)]}

\* The session receives well-formed frames, loses its connection, is
\* reconnected by the retry timer and is resubscribed by the caller
ResubscribeNext ==
    \/ \E f \in FullFrames :
          /\ \/ OnNeuralPulse(Newest, f)
             \/ OnTacticalUpdate(Newest, f)
             \/ OnSessionUpdate(Newest, f)
             \/ OnSmcData(Newest, f)
             \/ OnGhostUpdate(Newest, f)
          /\ LogsWithin(MaxFrameLogs)'
    \/ Connect("ETHUSDT", NoTimeframe)
          /\ Within(MaxSockets, MaxTimers, MaxCandles)'
    \/ SetTimeframe("1h") /\ Within(MaxSockets, MaxTimers, MaxCandles)'
    \/ OnOpen(Newest)
    \/ \E who \in Sockets :
          CloseCompletes(who) /\ Within(MaxSockets, MaxTimers, MaxCandles)'
    \/ ConnectionFails(Newest) /\ Within(MaxSockets, MaxTimers, MaxCandles)'
    \/ \E who \in Sockets :
          AbortCompletes(who) /\ Within(MaxSockets, MaxTimers, MaxCandles)'
    \/ \E i \in 1..Len(timers) :
          TimerFires(i) /\ Within(MaxSockets, MaxTimers, MaxCandles)'

ResubscribeSpec == FrameInit /\ [][ResubscribeNext]_vars

\* ------------------------------------------------------------------- chart
\* TradingChart.tsx, indicator math.  calcRSI is computed in exact fractions
\* [num, den].  calcEMA and calcMACD are computed in fixed point, Scale units
\* to 1, rounding down where the code's doubles round to nearest; the times of
\* their points do not depend on the rounding.
Scale == 100

RsiPeriod == 14
MacdFast == 12
MacdSlow == 26
MacdSignal == 9

BollingerPeriod == 20
BollingerMult == 2

\* sortedCandles.length < 5: the effect stops before the layout
MinBars == 5

\* candles.length > 15, candles.length > 35: the ledgers the chart computes an
\* indicator from
RsiMinBars == 15
MacdMinBars == 35

\* for (let i = 1; i <= period; i++): the gains and the losses of the
\* candles 2..i (counted from 1), summed
RECURSIVE WarmupSums(_, _)
WarmupSums(cs, i) ==
    IF i = 1 THEN [gain |-> 0, loss |-> 0]
    ELSE LET prev == WarmupSums(cs, i - 1)
             change == cs[i].close - cs[i - 1].close
         IN  IF change > 0
             THEN [gain |-> prev.gain + change, loss |-> prev.loss]
             ELSE [gain |-> prev.gain, loss |-> prev.loss - change]

\* avgGain = gain / den and avgLoss = loss / den when candle i (counted from 1)
\* has been taken in
RECURSIVE RsiAverages(_, _, _)
RsiAverages(cs, period, i) ==
    IF i = period + 1
    THEN LET sums == WarmupSums(cs, period + 1)
         IN  [gain |-> sums.gain, loss |-> sums.loss, den |-> period]
    ELSE LET prev == RsiAverages(cs, period, i - 1)
             change == cs[i].close - cs[i - 1].close
             gain == IF change > 0 THEN change ELSE 0
             loss == IF change < 0 THEN 0 - change ELSE 0
         IN  [gain |-> prev.gain * (period - 1) + gain * prev.den,
              loss |-> prev.loss * (period - 1) + loss * prev.den,
              den |-> prev.den * period]

\* avgLoss === 0 ? 100 : avgGain / avgLoss
RelativeStrength(avg) ==
    IF avg.loss = 0 THEN [num |-> 100, den |-> 1]
    ELSE [num |-> avg.gain, den |-> avg.loss]

\* 100 - 100 / (1 + rs)
RsiValue(rs) ==
    [num |-> 100 * (rs.den + rs.num) - 100 * rs.den, den |-> rs.den + rs.num]

\* calcRSI(candles, period)
calcRSI(cs, period) ==
    IF Len(cs) < period + 1 THEN <<>>
    ELSE [j \in 1..(Len(cs) - period) |->
            [time |-> cs[j + period].time,
             value |-> RsiValue(RelativeStrength(
                           RsiAverages(cs, period, j + period)))]]

\* candles.slice(0, period).reduce((s, c) => s + c.close, 0)
RECURSIVE SumClose(_, _)
SumClose(cs, n) == IF n = 0 THEN 0 ELSE SumClose(cs, n - 1) + cs[n].close

\* ema when candle i (counted from 1) has been taken in, with
\* k = 2 / (period + 1)
RECURSIVE EmaAt(_, _, _)
EmaAt(cs, period, i) ==
    IF i = period THEN SumClose(cs, period) \div period
    ELSE (2 * cs[i].close + (period - 1) * EmaAt(cs, period, i - 1))
            \div (period + 1)

\* A calcEMA that needs one candle more
calcEMALate(cs, period) ==
    IF Len(cs) < period + 1 THEN <<>>
    ELSE [j \in 1..(Len(cs) - period) |->
            [time |-> cs[j + period].time,
             value |-> EmaAt(cs, period, j + period)]]

\* calcEMA(candles, period)
calcEMA(cs, period) ==
    IF Len(cs) < period THEN <<>>
    ELSE [j \in 1..(Len(cs) - period + 1) |->
            [time |-> cs[j + period - 1].time,
             value |-> EmaAt(cs, period, j + period - 1)]]

\* new Map(series.map(d => [d.time, d.value])): has and get (the last point
\* of a time wins)
MapHas(series, t) == \E j \in 1..Len(series) : series[j].time = t
MapGet(series, t) ==
    LET j == CHOOSE j \in 1..Len(series) :
                 /\ series[j].time = t
                 /\ \A h \in (j + 1)..Len(series) : series[h].time # t
    IN  series[j].value

\* The closes of the candles in fixed point
Fixed(cs) ==
    [i \in 1..Len(cs) |-> [time |-> cs[i].time, close |-> cs[i].close * Scale]]

\* calcMACD(candles, fast, slow, signal)
calcMACD(cs, fast, slow, signal) ==
    LET emaFast == calcEMA(Fixed(cs), fast)
        emaSlow == calcEMA(Fixed(cs), slow)
        InSlow(d) == MapHas(emaSlow, d.time)
        common == SelectSeq(emaFast, InSlow)
        macdLine == [j \in 1..Len(common) |->
                       [time |-> common[j].time,
                        value |-> common[j].value
                                    - MapGet(emaSlow, common[j].time)]]
        syntheticCandles == [j \in 1..Len(macdLine) |->
                               [time |-> macdLine[j].time,
                                close |-> macdLine[j].value]]
        signalLine == calcEMA(syntheticCandles, signal)
        InSignal(d) == MapHas(signalLine, d.time)
        joined == SelectSeq(macdLine, InSignal)
        histogram == [j \in 1..Len(joined) |->
                        LET diff == joined[j].value
                                      - MapGet(signalLine, joined[j].time)
                        IN  [time |-> joined[j].time, value |-> diff,
                             color |-> IF diff >= 0 THEN "#26A69A"
                                       ELSE "#EF5350"]]
    IN  [macdLine |-> macdLine, signalLine |-> signalLine,
         histogram |-> histogram]

\* Math.sqrt in fixed point, rounded down: the largest r in lo..hi with
\* r * r <= v
RECURSIVE SqrtBetween(_, _, _)
SqrtBetween(v, lo, hi) ==
    IF lo = hi THEN lo
    ELSE LET mid == (lo + hi + 1) \div 2
         IN  IF mid * mid <= v THEN SqrtBetween(v, mid, hi)
             ELSE SqrtBetween(v, lo, mid - 1)

Sqrt(v) == SqrtBetween(v, 0, 46340)

\* slice.reduce((s, c) => s + c.close, 0) over the candles from..to
RECURSIVE SumWindow(_, _, _)
SumWindow(cs, from, to) ==
    IF to < from THEN 0 ELSE SumWindow(cs, from, to - 1) + cs[to].close

\* slice.reduce((s, c) => s + Math.pow(c.close - mean, 2), 0)
RECURSIVE SumSquares(_, _, _, _)
SumSquares(cs, from, to, mean) ==
    IF to < from THEN 0
    ELSE SumSquares(cs, from, to - 1, mean)
            + (cs[to].close - mean) * (cs[to].close - mean)

\* A calcBollinger whose loop starts one candle late
calcBollingerLate(cs, period, stdMult) ==
    LET n == IF Len(cs) < period + 1 THEN 0 ELSE Len(cs) - period
        Mean(i) == SumWindow(cs, i - period + 1, i) \div period
        Std(i) == Sqrt(SumSquares(cs, i - period + 1, i, Mean(i)) \div period)
        Line(f(_)) == [j \in 1..n |-> [time |-> cs[j + period].time,
                                       value |-> f(j + period)]]
        Upper(i) == Mean(i) + stdMult * Std(i)
        Lower(i) == Mean(i) - stdMult * Std(i)
    IN  [upper |-> Line(Upper), middle |-> Line(Mean), lower |-> Line(Lower)]

\* calcBollinger(candles, period, stdMult): the loop runs for the candles
\* period..length (counted from 1)
calcBollinger(cs, period, stdMult) ==
    LET n == IF Len(cs) < period THEN 0 ELSE Len(cs) - period + 1
        Mean(i) == SumWindow(cs, i - period + 1, i) \div period
        Std(i) == Sqrt(SumSquares(cs, i - period + 1, i, Mean(i)) \div period)
        Line(f(_)) == [j \in 1..n |-> [time |-> cs[j + period - 1].time,
                                       value |-> f(j + period - 1)]]
        Upper(i) == Mean(i) + stdMult * Std(i)
        Lower(i) == Mean(i) - stdMult * Std(i)
    IN  [upper |-> Line(Upper), middle |-> Line(Mean), lower |-> Line(Lower)]

\* [...candles].sort((a, b) => Number(a.time) - Number(b.time)); the sort is
\* stable: c goes behind the candles of the sorted q whose time is not above
\* its own
InsertByTime(q, c) ==
    LET k == Cardinality({i \in 1..Len(q) : q[i].time <= c.time})
    IN  SubSeq(q, 1, k) \o <<c>> \o SubSeq(q, k + 1, Len(q))

RECURSIVE SortByTime(_)
SortByTime(cs) ==
    IF cs = <<>> THEN <<>>
    ELSE InsertByTime(SortByTime(SubSeq(cs, 1, Len(cs) - 1)), cs[Len(cs)])

\* .filter((c, i, arr) => i === 0 || c.time !== arr[i - 1].time)
RECURSIVE DropRepeats(_)
DropRepeats(q) ==
    IF Len(q) <= 1 THEN q
    ELSE LET rest == DropRepeats(SubSeq(q, 1, Len(q) - 1))
         IN  IF q[Len(q)].time # q[Len(q) - 1].time
             THEN Append(rest, q[Len(q)]) ELSE rest

\* Sanitización defensiva
sortedCandles(cs) == DropRepeats(SortByTime(cs))

\* Dynamic Subpanels Layout: mainBottom, in hundredths
MainBottom(on) ==
    IF "rsi" \in on /\ "macd" \in on THEN 45
    ELSE IF "rsi" \in on \/ "macd" \in on THEN 25
    ELSE 8

\* Dynamic Subpanels Layout: the margins after the applyOptions calls
ApplyLayout(m, on) ==
    LET mainBottom == MainBottom(on)
        osc == IF "rsi" \in on /\ "macd" \in on
               THEN [m EXCEPT !.rsi = Margins(58, 24), !.macd = Margins(78, 2)]
               ELSE IF "rsi" \in on THEN [m EXCEPT !.rsi = Margins(77, 2)]
               ELSE IF "macd" \in on THEN [m EXCEPT !.macd = Margins(77, 2)]
               ELSE m
    IN  [osc EXCEPT !.right = Margins(5, mainBottom + 20),
                    !.volume = Margins(100 - mainBottom - 15, mainBottom)]

\* calcEMA(candles, 20), calcEMA(candles, 50), calcEMA(candles, 200)
EmaPeriod(id) == IF id = "ema20" THEN 20 ELSE IF id = "ema50" THEN 50 ELSE 200

\* candles.map(c => ({time, value: c.volume, color}))
VolumeBars(cs) ==
    [i \in 1..Len(cs) |->
        [time |-> cs[i].time, value |-> cs[i].volume,
         color |-> IF cs[i].close >= cs[i].open THEN "rgba(0,255,65,0.4)"
                   ELSE "rgba(255,0,60,0.4)"]]

\* The sync effect, RSI block:
\* if (on('rsi') && candles.length > 15) setData(calcRSI(candles))
RenderRSI(on) ==
    /\ "rsi" \in on
    /\ Len(candles) > RsiMinBars
    /\ rsiSeries' = calcRSI(candles, RsiPeriod)

\* MACD block: if (macdOn && candles.length > 35) the three series get the
\* three results of calcMACD(candles)
RenderMACD(on) ==
    /\ "macd" \in on
    /\ Len(candles) > MacdMinBars
    /\ macdSeries' = calcMACD(candles, MacdFast, MacdSlow, MacdSignal)

\* The sync effect, from the layout on
RenderIndicators(on) ==
    /\ scaleMargins' = ApplyLayout(scaleMargins, on)
    /\ visible' = [id \in SeriesIds |->
                     IF id = "ema200"
                     THEN id \in on
                            /\ Len(calcEMA(Fixed(candles), EmaPeriod(id))) > 0
                     ELSE id \in on]
    /\ emaSeries' = [id \in EmaIds |->
                       IF id \in on
                       THEN calcEMA(Fixed(candles), EmaPeriod(id))
                       ELSE emaSeries[id]]
    /\ bbSeries' = IF "bb" \in on
                   THEN calcBollinger(Fixed(candles), BollingerPeriod,
                                      BollingerMult)
                   ELSE bbSeries
    /\ volumeSeries' = IF "volume" \in on THEN VolumeBars(candles)
                       ELSE volumeSeries
    /\ IF "rsi" \in on /\ Len(candles) > RsiMinBars
       THEN RenderRSI(on) ELSE UNCHANGED rsiSeries
    /\ IF "macd" \in on /\ Len(candles) > MacdMinBars
       THEN RenderMACD(on) ELSE UNCHANGED macdSeries

\* The sync effect, useEffect(..., [candles, indicators]): React runs it after
\* the render that follows a change of candles or of indicators (and after
\* the first render).  It does not write the store.
Render ==
    /\ deps # <<candles, indicators>>
    /\ deps' = <<candles, indicators>>
    /\ IF Len(candles) = 0
       THEN \* if (!candleSeriesRef.current || candles.length === 0) return
            UNCHANGED <<candleSeries, scaleMargins, visible, emaSeries,
                        bbSeries, volumeSeries, rsiSeries, macdSeries>>
       ELSE /\ candleSeries' = sortedCandles(candles)
            /\ IF Len(sortedCandles(candles)) < MinBars
               THEN \* if (sortedCandles.length < 5) return
                    UNCHANGED <<scaleMargins, visible, emaSeries, bbSeries,
                                volumeSeries, rsiSeries, macdSeries>>
               ELSE RenderIndicators(indicators)
    /\ UNCHANGED <<storeVars, sliceVars, ws, retryCount, retryTimeout, sock,
                   url, isRetry, stale, timers, last, lastDelay, frame,
                   indicators, call>>

\* toggleIndicator(id)
ToggleIndicator(id) ==
    /\ indicators' = IF id \in indicators THEN indicators \ {id}
                     ELSE indicators \cup {id}
    /\ UNCHANGED <<storeVars, sliceVars, ws, retryCount, retryTimeout, sock,
                   url, isRetry, stale, timers, last, lastDelay, frame,
                   rsiSeries, macdSeries, candleSeries, emaSeries, bbSeries,
                   volumeSeries, visible, scaleMargins, deps, call>>

\* n bars whose closes rise by `step` up to bar k and fall by it afterwards
Bars(n, k, step) ==
    [i \in 1..n |->
        Candle(i, 100 + step * (IF i <= k THEN i ELSE 2 * k - i))]

\* An open session with a ledger of at most `mb` bars
ChartInit(mb) ==
    /\ Opened
    /\ \E n \in 0..mb, k \in 0..mb, step \in 0..2 :
          /\ k <= n
          /\ candles = Bars(n, k, step)
          /\ latestPrice = IF n = 0 THEN NoPrice ELSE candles[n].close

\* The user switches the RSI on and off
RsiNext == ToggleIndicator("rsi") \/ Render

RsiSpec == ChartInit(MaxRsiBars) /\ [][RsiNext]_vars

\* The user switches the MACD on and off
MacdNext == ToggleIndicator("macd") \/ Render

MacdSpec == ChartInit(MaxBars) /\ [][MacdNext]_vars

\* A call of an indicator function leaves the store and the chart alone
callFrame == <<storeVars, sliceVars, ws, retryCount, retryTimeout, sock, url,
               isRetry, stale, timers, last, lastDelay, frame, indicators,
               rsiSeries, macdSeries, candleSeries, emaSeries, bbSeries,
               volumeSeries, visible, scaleMargins, deps>>

CallEMA(cs, period) ==
    /\ call' = [fn |-> "calcEMA", candles |-> cs, period |-> period,
                result |-> calcEMA(Fixed(cs), period)]
    /\ UNCHANGED callFrame

CallBollinger(cs, period) ==
    /\ call' = [fn |-> "calcBollinger", candles |-> cs, period |-> period,
                result |-> calcBollinger(Fixed(cs), period, BollingerMult)]
    /\ UNCHANGED callFrame

CallRSI(cs, period) ==
    /\ call' = [fn |-> "calcRSI", candles |-> cs, period |-> period,
                result |-> calcRSI(cs, period)]
    /\ UNCHANGED callFrame

\* calcMACD with the periods period, period + 1 and `signal`
CallMACD(cs, period, signal) ==
    /\ call' = [fn |-> "calcMACD", candles |-> cs, period |-> period + 1,
                signal |-> signal,
                result |-> calcMACD(cs, period, period + 1, signal)]
    /\ UNCHANGED callFrame

\* The candle arrays the indicator functions are called with
CallBars ==
    {Bars(n, k, step) : n \in 0..MaxCallBars, k \in 0..MaxCallBars,
                        step \in 0..2}

\* An open session that holds one of them
IndicatorInit ==
    /\ Opened
    /\ \E cs \in CallBars :
          /\ candles = cs
          /\ latestPrice = IF cs = <<>> THEN NoPrice ELSE cs[Len(cs)].close

\* The indicator functions are called with the candles of the store
IndicatorNext ==
    \/ \E period \in 1..MaxPeriod : CallEMA(candles, period)
    \/ \E period \in 1..MaxPeriod : CallBollinger(candles, period)
    \/ \E period \in 1..MaxPeriod : CallRSI(candles, period)
    \/ \E period \in 1..MaxPeriod, signal \in 1..MaxPeriod :
          CallMACD(candles, period, signal)

IndicatorSpec == IndicatorInit /\ [][IndicatorNext]_vars

\* An open session that has received no bar
EmptyLedger ==
    /\ Opened
    /\ candles = <<>>
    /\ latestPrice = NoPrice

\* The ticks of a feed that goes back in time
UnsortedTicks == {Candle(t, p) : t \in Times, p \in Prices}

\* The chart follows a ledger filled by such a feed
SanitizeNext ==
    \/ \E c \in UnsortedTicks :
          OnCandle(Newest, c) /\ (Len(candles) <= MaxUnsorted)'
    \/ Render

SanitizeSpec == EmptyLedger /\ [][SanitizeNext]_vars

\* The indicators the user switches
Toggled == {"volume", "rsi", "macd"}

\* The bar that follows the last one of the ledger
NextBar(cs) == Candle(Len(cs) + 1, 100)

\* The chart follows the store while the user switches indicators and
\* resubscribes, and the new subscription's bars arrive
ChartNext ==
    \/ \E id \in Toggled : ToggleIndicator(id)
    \/ Render
    \/ Connect("ETHUSDT", NoTimeframe)
          /\ Within(MaxSockets, MaxTimers, MaxChartBars)'
    \/ OnOpen(Newest)
    \/ OnCandle(Newest, NextBar(candles))
          /\ Within(MaxSockets, MaxTimers, MaxChartBars)'

\* An open session whose ledger holds no bar, too few for the layout, enough
\* for it, or enough for the RSI
ChartStart ==
    /\ Opened
    /\ \E n \in {0, MinBars - 1, MinBars, RsiMinBars + 1} :
          /\ candles = Bars(n, n, 1)
          /\ latestPrice = IF n = 0 THEN NoPrice ELSE candles[n].close

ChartSpec == ChartStart /\ [][ChartNext]_vars

\* ------------------------------------------------------------------ claims
Min2(a, b) == IF a <= b THEN a ELSE b

\* The subscription the store holds
Subscription == [symbol |-> activeSymbol, timeframe |-> activeTimeframe]

NoPendingTimer == timers = <<>>

StrictlyAscending(cs) == \A i \in 1..(Len(cs) - 1) : cs[i].time < cs[i + 1].time

\* C1: the close event of a socket that was open when disconnect() closed it
\* (ws is null and the socket created last is in its closing handshake)
\* schedules no retry timer.
C1_DisconnectCloseSchedulesNoRetry ==
    [][(ws = Null /\ sock = "CLOSING" /\ sock' = "CLOSED")
          => timers' = timers]_vars

\* C2: the stored candles are strictly ascending by time, with no time twice,
\* whatever ticks the candle handler was given (a tick older than the last
\* stored candle is ignored).
C2_LedgerStrictlyAscending == StrictlyAscending(candles)

\* C3: the close event of a replaced socket never schedules a reconnect.
C3_ReplacedCloseSchedulesNoRetry ==
    (last.op = "close" /\ ~last.cur) => ~last.sched

\* C4: a message that writes the store is a message of the socket created
\* last, never one of a replaced socket.
C4_OnlyNewestSocketWrites ==
    last.op = "message" => last.cur

\* The socket created last delivers a candle while a socket it replaced is
\* still alive.
C4_Witness ==
    /\ last.op = "message" /\ last.cur
    /\ StaleCount(stale) > 0
    /\ latestPrice # NoPrice

\* The retry ceiling is reached and the current socket is closed with no
\* retry scheduled for it.
GaveUp ==
    /\ retryCount = MAX_RETRIES
    /\ sock = "CLOSED"
    /\ retryTimeout = 0

\* C5: at most MAX_RETRIES reconnects are scheduled between two fresh
\* connects, and once the session gave up isConnected stays false and no
\* connection is attempted until the caller calls connect() or setTimeframe().
C5_RetryCeilingIsTerminal ==
    [][/\ retryCount' <= MAX_RETRIES
       /\ GaveUp => \/ last'.op \in {"connect", "setTimeframe"}
                    \/ (last'.op # "timer" /\ ~isConnected')]_vars

\* C6: the delay scheduled at retry count k is min(MaxDelay, BaseDelay * 2^k),
\* never above MaxDelay and never below the delay scheduled before it since
\* the last fresh connect.
C6_BackoffDelays ==
    [][retryCount' = retryCount + 1
          => /\ lastDelay' = Min2(MaxDelay, BaseDelay * Pow2(retryCount))
             /\ lastDelay' <= MaxDelay
             /\ lastDelay <= lastDelay']_vars

\* The fifth retry in a row was scheduled, with the largest delay.
C6_Witness ==
    /\ last.op = "close" /\ last.sched
    /\ retryCount = MAX_RETRIES
    /\ lastDelay = MaxDelay

\* C7: when the socket a retry created delivers its open event, retryCount is
\* zero.
C7_OpenResetsRetryCount ==
    (last.op = "open" /\ last.cur /\ isRetry) => retryCount = 0

\* C8: after disconnect() no retry timer is pending.
C8_DisconnectCancelsRetry ==
    last.op = "disconnect" => NoPendingTimer

\* C9: the socket created last is addressed to the symbol and timeframe the
\* store holds.
C9_SocketMatchesSubscription ==
    sock # "NONE" => url = Subscription

\* C10: when the close event of the current socket has scheduled a retry, a
\* connection to the store's subscription is eventually attempted, unless
\* the caller calls connect(), setTimeframe() or disconnect() first.
C10_RetryEventuallyReconnects ==
    (last.op = "close" /\ last.cur /\ last.sched)
        ~> \/ last.op \in {"connect", "setTimeframe", "disconnect"}
           \/ (last.op = "timer" /\ url = Subscription)

\* C11: the ledger never holds more than CandleCap candles, and a tick pushed
\* onto a full ledger evicts the oldest candle only: the ledger is then the
\* CandleCap candles received last.
C11_LedgerCapped ==
    [][/\ Len(candles') <= CandleCap
       /\ (/\ frame'.type = "candle"
           /\ Len(candles) = CandleCap
           /\ frame'.data.time # candles[Len(candles)].time)
             => candles' = Append(Tail(candles), frame'.data)]_vars

\* A full ledger has evicted its oldest bar.
C11_Witness ==
    /\ frame.type = "candle"
    /\ Len(candles) = CandleCap
    /\ candles[1].time = 2
    /\ candles[CandleCap] = frame.data

\* C12: a tick with the time of the last candle replaces that candle and
\* leaves the length and the earlier candles alone; a tick with a greater time
\* is appended after it.
C12_SameTimeReplacesLast ==
    [][(frame'.type = "candle" /\ candles # <<>>) =>
          LET n == Len(candles)
              m == Len(candles')
              c == frame'.data
          IN  /\ c.time = candles[n].time
                    => candles' = [candles EXCEPT ![n] = c]
              /\ c.time > candles[n].time
                    => /\ m >= 2
                       /\ candles'[m] = c
                       /\ candles'[m - 1] = candles[n]]_vars

\* The last bar of the ledger the session started with was updated in place.
C12_Witness ==
    /\ frame.type = "candle"
    /\ Len(candles) = CandleCap - NearCap
    /\ candles[Len(candles)] = Candle(CandleCap - NearCap, 11)

\* A candle the spec calls malformed
Malformed(c) == c.high < c.low \/ c.volume < 0

\* C13: a malformed candle tick (high below low, negative volume) changes
\* neither the ledger nor latestPrice.
C13_MalformedCandleRejected ==
    [][(frame'.type = "candle" /\ Malformed(frame'.data))
          => (candles' = candles /\ latestPrice' = latestPrice)]_vars

\* The handler of the frame reads a property of a field the frame lacks, or
\* the frame is no JSON text
Incomplete(f) ==
    \/ f.type = "(unparseable)"
    \/ f.type = "neural_pulse" /\ ~Has(f.data, "log")
    \/ f.type = "tactical_update" /\ ~Has(f, "data")
    \/ f.type = "smc_data" /\ ~(Has(f.data, "order_blocks") /\ Has(f.data, "fvgs"))
    \/ f.type = "ghost_update" /\ ~Has(f.data, "funding_rate")
    \/ f.type = "drift_alert" /\ ~Has(f.data, "psi_max")

\* C14: a frame that cannot be parsed, or whose payload lacks a field its
\* handler reads, leaves every field of the store unchanged and the socket
\* open for later frames.
C14_BadFrameChangesNothing ==
    [][Incomplete(frame')
          => (UNCHANGED <<storeVars, sliceVars>> /\ sock' = "OPEN")]_vars

\* C15: every frame changes the slices of its own handler only.
\* tactical_update: tacticalDecision; session_update: sessionData;
\* neural_pulse: mlProjection, liquidityHeatmap and neuralLogs; smc_data:
\* smcData and neuralLogs; ghost_update: ghostData and neuralLogs;
\* drift_alert: neuralLogs; none of them changes candles or latestPrice, and a
\* frame of an unknown type changes nothing.
C15_FrameChangesOnlyItsSlices ==
    [][frame'.type # "none" =>
          /\ frame'.type # "candle" => UNCHANGED <<storeVars>>
          /\ frame'.type = "tactical_update" =>
                UNCHANGED <<mlProjection, liquidityHeatmap, neuralLogs, smcData,
                            sessionData, ghostData>>
          /\ frame'.type = "session_update" =>
                UNCHANGED <<mlProjection, liquidityHeatmap, neuralLogs,
                            tacticalDecision, smcData, ghostData>>
          /\ frame'.type = "neural_pulse" =>
                UNCHANGED <<tacticalDecision, smcData, sessionData, ghostData>>
          /\ frame'.type = "smc_data" =>
                UNCHANGED <<mlProjection, liquidityHeatmap, tacticalDecision,
                            sessionData, ghostData>>
          /\ frame'.type = "ghost_update" =>
                UNCHANGED <<mlProjection, liquidityHeatmap, tacticalDecision,
                            smcData, sessionData>>
          /\ frame'.type = "drift_alert" =>
                UNCHANGED <<mlProjection, liquidityHeatmap, tacticalDecision,
                            smcData, sessionData, ghostData>>
          /\ frame'.type \notin RecognisedTypes => UNCHANGED sliceVars]_vars

\* A tactical update arrives when the other slices are filled: they and the
\* ledger are as they were.
C15_Witness ==
    /\ frame.type = "tactical_update"
    /\ tacticalDecision = TacticalDecisionOf(TacticalReport)
    /\ mlProjection = Projection
    /\ sessionData # JsNull
    /\ smcData # JsNull
    /\ candles = Ledger(1)

\* C16: neuralLogs is ordered newest first and holds exactly the min(LogCap, n)
\* entries produced last, n being the number of entries produced so far, the
\* initial one included.
C16_LogsAreNewestFive ==
    LET n == neuralLogs[1].id + 1 IN
    /\ Len(neuralLogs) = Min2(LogCap, n)
    /\ \A i \in 1..Len(neuralLogs) : neuralLogs[i].id = n - i

\* C17: a tactical update replaces the whole decision: every number | null
\* field is the payload's value, null when the payload has none, 0 when it
\* says 0; regime, strategy, signals and key levels are the payload's or the
\* defaults and the reasoning is the text of this update, whatever the
\* decision was before.
C17_TacticalFullReplace ==
    [][(frame'.type = "tactical_update" /\ Has(frame', "data")) =>
          LET d == frame'.data
              t == tacticalDecision'
          IN  /\ \A f \in NumericFields :
                    /\ ~Has(d, f) => t[f] = JsNull
                    /\ Has(d, f) => t[f] = d[f]
              /\ t.regime = (IF Has(d, "market_regime")
                              THEN d.market_regime ELSE "UNKNOWN")
              /\ t.strategy = (IF Has(d, "active_strategy")
                                THEN d.active_strategy ELSE "STANDBY")
              /\ t.signals = (IF Has(d, "signals") THEN d.signals ELSE <<>>)
              /\ t.key_levels = (IF Has(d, "key_levels")
                                  THEN d.key_levels ELSE NoKeyLevels)
              /\ t.reasoning[1] = "Regimen"]_vars

\* The decision of a payload that says 0 for sma_fast, nothing for sma_slow
\* and has no texts.
C17_Witness ==
    /\ frame.type = "tactical_update"
    /\ DOMAIN frame.data = NumericFields \ {"sma_slow"}
    /\ frame.data.sma_fast = Js(0)
    /\ tacticalDecision.sma_fast = Js(0)
    /\ tacticalDecision.sma_slow = JsNull
    /\ tacticalDecision.regime = "UNKNOWN"

\* After the step a slice of the store holds the payload p
Stored(p) == ghostData' = Js(p) \/ smcData' = Js(p) \/ sessionData' = Js(p)

\* Exactly one entry, of the given type, was prepended to the log
OnePrepended(type) ==
    /\ neuralLogs'[1].id = neuralLogs[1].id + 1
    /\ neuralLogs'[1].type = type
    /\ Tail(neuralLogs') = Slice(neuralLogs, Len(neuralLogs') - 1)
    /\ Len(neuralLogs') = Min2(LogCap, Len(neuralLogs) + 1)

\* C18: a ghost_update replaces ghostData by its payload and prepends one log
\* entry, an ALERT exactly when block_longs or block_shorts is set; a
\* drift_alert stores its payload and prepends one log entry, an ALERT or an
\* informational one according to drift_level.
C18_GhostAndDriftSnapshots ==
    [][/\ (frame'.type = "ghost_update" /\ ~Incomplete(frame')) =>
             /\ ghostData' = Js(frame'.data)
             /\ OnePrepended(IF frame'.data.block_longs
                                   \/ frame'.data.block_shorts
                              THEN "ALERT" ELSE "SENSOR")
       /\ (frame'.type = "drift_alert" /\ ~Incomplete(frame')) =>
             /\ Stored(frame'.data)
             /\ OnePrepended(IF frame'.data.drift_level = "SEVERE"
                              THEN "ALERT" ELSE "SENSOR")]_vars

\* The times of the points of a series
TimesOf(series) == {series[j].time : j \in 1..Len(series)}

\* The chart has set the results of calcMACD on its series
MacdRendered == macdSeries # NoMacd

\* C19: the three series calcMACD returns have the same set of timestamps.
C19_MacdSeriesShareTimes ==
    MacdRendered =>
        /\ TimesOf(macdSeries.macdLine) = TimesOf(macdSeries.signalLine)
        /\ TimesOf(macdSeries.signalLine) = TimesOf(macdSeries.histogram)

\* The closes of the candles 1..n rise strictly
StrictlyRising(cs, n) == \A i \in 2..n : cs[i - 1].close < cs[i].close

\* C20: when the closes rise strictly over the warm-up window (the first
\* RsiPeriod + 1 candles), the first RSI sample is 100 exactly; and every
\* sample whose average loss is not zero is 100 - 100 / (1 + avgGain / avgLoss),
\* that is 100 * avgGain / (avgGain + avgLoss).
C20_RsiOfRisingWarmupIs100 ==
    rsiSeries # <<>> =>
        /\ StrictlyRising(candles, RsiPeriod + 1)
              => rsiSeries[1].value.num = 100 * rsiSeries[1].value.den
        /\ \A j \in 1..Len(rsiSeries) :
              LET avg == RsiAverages(candles, RsiPeriod, j + RsiPeriod)
              IN  avg.loss # 0 =>
                      rsiSeries[j].value = [num |-> 100 * avg.gain,
                                            den |-> avg.gain + avg.loss]

\* The socket created last has delivered its open event and no close event
CurrentSocketIsOpen == sock \in {"OPEN", "CLOSING"}

\* C28: isConnected is true exactly when the socket created last has delivered
\* its open event and has not yet delivered a close or error event.
C28_IsConnectedTracksCurrentSocket == isConnected = CurrentSocketIsOpen

\* C29: at most one retry timer is pending, and a pending retry timer is the
\* one retryTimeout refers to.
C29_OnePendingTimerIsReferenced ==
    /\ Len(timers) <= 1
    /\ timers # <<>> => retryTimeout = 1

\* C30: a reconnect by the retry timer leaves activeSymbol, activeTimeframe,
\* candles, latestPrice, every slice and retryCount unchanged; connect() and
\* setTimeframe() empty candles, set latestPrice, smcData, sessionData and
\* liquidityHeatmap to null, tacticalDecision and mlProjection to their standby
\* values and retryCount to 0, and leave neuralLogs and ghostData unchanged.
C30_RetryKeepsWhatConnectResets ==
    [][/\ last'.op = "timer" =>
             UNCHANGED <<activeSymbol, activeTimeframe, candles, latestPrice,
                         sliceVars, retryCount>>
       /\ last'.op \in {"connect", "setTimeframe"} =>
             /\ candles' = <<>>
             /\ latestPrice' = NoPrice
             /\ smcData' = JsNull
             /\ sessionData' = JsNull
             /\ liquidityHeatmap' = JsNull
             /\ tacticalDecision' = StandbyDecision(activeSymbol')
             /\ mlProjection' = StandbyProjection
             /\ retryCount' = 0
             /\ UNCHANGED <<neuralLogs, ghostData>>]_vars

\* The retry timer has reconnected a session that holds candles and slices
C30_Witness ==
    /\ last.op = "timer"
    /\ retryCount > 0
    /\ candles # <<>>
    /\ smcData # JsNull
    /\ ghostData # JsNull
    /\ tacticalDecision.regime = "TREND"

\* The times of the candles from..Len(cs), in order
TimesFrom(cs, from) == [j \in 1..(Len(cs) - from + 1) |-> cs[j + from - 1].time]

\* The times of the points of a series, in order
TimeLine(series) == [j \in 1..Len(series) |-> series[j].time]

\* C21: calcEMA returns no point for fewer candles than period; for exactly
\* period candles it returns one point, with the time of the last candle and
\* the mean of the closes (in the fixed point's resolution).
C21_EmaSeedIsMean ==
    call.fn = "calcEMA" =>
        LET cs == call.candles
            total == SumClose(Fixed(cs), Len(cs))
        IN  /\ Len(cs) < call.period => call.result = <<>>
            /\ Len(cs) = call.period =>
                  /\ Len(call.result) = 1
                  /\ call.result[1].time = cs[Len(cs)].time
                  /\ call.period * call.result[1].value <= total
                  /\ total < call.period * (call.result[1].value + 1)

\* calcEMA was called with exactly period candles of different closes
C21_Witness ==
    /\ call.fn = "calcEMA"
    /\ call.period = MaxPeriod
    /\ Len(call.candles) = call.period
    /\ call.candles[1].close # call.candles[2].close
    /\ Len(call.result) = 1

\* C22: an indicator function given fewer candles than it needs returns empty
\* series (EMA, Bollinger: fewer than period; RSI: fewer than period + 1;
\* MACD: fewer than slow, and the signal and the histogram while the MACD line
\* has fewer than `signal` points); otherwise it returns one point per candle,
\* in candle order, from candle period - 1 on (EMA, Bollinger) or from candle
\* period on (RSI), counted from 0.
C22_IndicatorsDegradeToEmpty ==
    LET cs == call.candles
        r == call.result
    IN  /\ call.fn = "calcEMA" =>
              TimeLine(r) = IF Len(cs) < call.period THEN <<>>
                            ELSE TimesFrom(cs, call.period)
        /\ call.fn = "calcBollinger" =>
              \A band \in {"upper", "middle", "lower"} :
                  TimeLine(r[band]) = IF Len(cs) < call.period THEN <<>>
                                      ELSE TimesFrom(cs, call.period)
        /\ call.fn = "calcRSI" =>
              TimeLine(r) = IF Len(cs) < call.period + 1 THEN <<>>
                            ELSE TimesFrom(cs, call.period + 1)
        /\ call.fn = "calcMACD" =>
              /\ Len(cs) < call.period => r = NoMacd
              /\ Len(r.macdLine) < call.signal =>
                    r.signalLine = <<>> /\ r.histogram = <<>>

\* calcBollinger was called with exactly period candles
C22_Witness ==
    /\ call.fn = "calcBollinger"
    /\ call.period = MaxPeriod
    /\ Len(call.candles) = call.period
    /\ Len(call.result.middle) = 1

\* The sync effect has run for the current candles and indicators
Synced == deps = <<candles, indicators>>

\* The last candle of cs with the time t
LastWithTime(cs, t) ==
    cs[CHOOSE i \in 1..Len(cs) :
           /\ cs[i].time = t
           /\ \A h \in (i + 1)..Len(cs) : cs[h].time # t]

\* C26: the sanitized candles are sorted ascending by time, hold exactly one
\* candle per distinct time of the input, and for a time that occurs several
\* times the candle kept is its last occurrence.
C26_SanitizeKeepsLastOccurrence ==
    (Synced /\ candles # <<>>) =>
        /\ StrictlyAscending(candleSeries)
        /\ TimesOf(candleSeries) = TimesOf(candles)
        /\ \A j \in 1..Len(candleSeries) :
              candleSeries[j] = LastWithTime(candles, candleSeries[j].time)

\* The times of the points an indicator's series hold
SeriesTimes(id) ==
    IF id \in EmaIds THEN TimesOf(emaSeries[id])
    ELSE IF id = "bb"
    THEN TimesOf(bbSeries.upper) \cup TimesOf(bbSeries.middle)
            \cup TimesOf(bbSeries.lower)
    ELSE IF id = "volume" THEN TimesOf(volumeSeries)
    ELSE IF id = "rsi" THEN TimesOf(rsiSeries)
    ELSE TimesOf(macdSeries.macdLine) \cup TimesOf(macdSeries.signalLine)
            \cup TimesOf(macdSeries.histogram)

\* C23: once the sync effect has run for the current candle set, every point
\* of every visible indicator series has the time of a candle of that set.
C23_SeriesTimesAreCandleTimes ==
    Synced =>
        \A id \in SeriesIds :
            visible[id] => SeriesTimes(id) \subseteq TimesOf(candles)

\* The sync effect has run for the current candles and indicators, and has
\* computed the layout
LaidOut == Synced /\ Len(sortedCandles(candles)) >= MinBars

\* The price scales of the panes in use: main, volume and the oscillators
\* that are enabled
Panes == {"right", "volume"} \cup ({"rsi", "macd"} \cap indicators)

\* The vertical span of a pane, [top, 1 - bottom], in hundredths
SpanTop(pane) == scaleMargins[pane].top
SpanEnd(pane) == 100 - scaleMargins[pane].bottom
SpanLength(pane) == IF pane \in Panes THEN SpanEnd(pane) - SpanTop(pane) ELSE 0

\* C24: for every combination of RSI and MACD, the spans of the main pane, the
\* volume pane and the enabled oscillator panes do not overlap pairwise and
\* their lengths sum to the whole height; computing the layout again for the
\* same enabled set gives the same margins.
C24_PanesTileTheChart ==
    LaidOut =>
        /\ \A a \in Panes : \A b \in Panes \ {a} :
              SpanEnd(a) <= SpanTop(b) \/ SpanEnd(b) <= SpanTop(a)
        /\ SpanLength("right") + SpanLength("volume") + SpanLength("rsi")
              + SpanLength("macd") = 100
        /\ ApplyLayout(scaleMargins, indicators) = scaleMargins

\* The visibility of every series and the margins of the price scales are
\* those of the enabled set (the EMA 200 series is hidden while it is empty)
LayoutMatches ==
    /\ \A id \in SeriesIds :
          visible[id] = (/\ id \in indicators
                         /\ id = "ema200" => emaSeries[id] # <<>>)
    /\ ApplyLayout(scaleMargins, indicators) = scaleMargins

\* C25: the run of the sync effect that follows a change of the enabled set
\* leaves the margins and the visibility of every series as the enabled set
\* requires, whatever the number of candles.
C25_ToggleIsFollowedByLayout ==
    [][(deps # NoDeps /\ deps' # deps /\ deps[2] # indicators)
          => LayoutMatches']_vars

\* C27: under every combination of RSI and MACD the volume pane has the same
\* height, its lower edge is the top of the uppermost enabled oscillator pane,
\* and the main pane's bottom margin is larger than with fewer oscillators.
C27_VolumeSitsOnOscillators ==
    LaidOut =>
        /\ SpanEnd("volume") - SpanTop("volume") = 15
        /\ \A osc \in Panes \ {"right", "volume"} :
              \/ SpanEnd("volume") = SpanTop(osc)
              \/ \E upper \in Panes \ {"right", "volume"} :
                    SpanTop(upper) < SpanTop(osc)
                        /\ SpanEnd("volume") = SpanTop(upper)
        /\ \A fewer \in SUBSET ({"rsi", "macd"} \cap indicators) :
              fewer # {"rsi", "macd"} \cap indicators =>
                  ApplyLayout(scaleMargins, fewer).right.bottom
                      < scaleMargins.right.bottom

====
